---- MODULE Spec2Model ----
(***************************************************************************)
(* Model of xskillscore/core/probabilistic.py: the five probabilistic      *)
(* scores (crps_gaussian, crps_quadrature, crps_ensemble, brier_score,     *)
(* threshold_brier_score).  Each one normalises its arguments, hands them  *)
(* to xr.apply_ufunc with per-argument core dimensions, and reduces the    *)
(* outcome with a (weighted) mean over dim.                                *)
(*                                                                         *)
(* A labeled array is a record                                             *)
(*   [kind |-> "array", dims, shape, data, coords, attrs]                  *)
(* dims is the tuple of dimension names (ordered, as xarray keeps it),     *)
(* shape the size of each dimension, data a function from index            *)
(* assignments [dimension -> position] to cell values, coords the          *)
(* coordinate labels of the dimensions that carry some, attrs the          *)
(* metadata keys.  The numeric kernels of properscoring are external pure  *)
(* functions: a kernel cell is the application term [op, in, kw] of the    *)
(* kernel to the values it receives, and a mean is the bag of              *)
(* <<term, weight>> pairs it averages.                                     *)
(***************************************************************************)
EXTENDS Integers, Sequences, FiniteSets, TLC

VARIABLES op, args, post, disp, result, raised

vars == <<op, args, post, disp, result, raised>>

\* ------------------------------------------------------------------ bounds

\* Largest number of thresholds in a threshold list.
MaxThresholds == 2

\* Size of every dimension of the input arrays.
DimLen == 2

\* ------------------------------------------------------------ python values

NoneVal == [kind |-> "none"]

Scalar(v) == [kind |-> "scalar", val |-> v]

PyList(s) == [kind |-> "list", vals |-> s]

PyTuple(s) == [kind |-> "tuple", vals |-> s]

NoError == [exc |-> "none", at |-> "none"]

ValueError(site) == [exc |-> "ValueError", at |-> site]

Range(s) == {s[k] : k \in DOMAIN s}

DimSet(a) == Range(a.dims)

MaxSize == IF DimLen > MaxThresholds THEN DimLen ELSE MaxThresholds

\* The index assignments of an array with dimension set D and sizes shape.
Idx(D, shape) == {i \in [D -> 1..MaxSize] : \A d \in D : i[d] <= shape[d]}

Restrict(i, D) == [d \in D |-> i[d]]

\* s followed by the names of t that s lacks, in t's order.
OrdUnion(s, t) == s \o SelectSeq(t, LAMBDA d : d \notin Range(s))

Without(s, R) == SelectSeq(s, LAMBDA d : d \notin R)

\* The bag (element -> multiplicity) of f[i] for i in S.
BagOf(S, f) == [e \in {f[i] : i \in S} |-> Cardinality({i \in S : f[i] = e})]

\* ------------------------------------------------------------- input data

DimCode(d) == CASE d = "x" -> 1 [] d = "y" -> 3 [] d = "member" -> 9 [] OTHER -> 27

RECURSIVE CellCode(_, _)
CellCode(i, D) ==
    IF D = {} THEN 0
    ELSE LET d == CHOOSE e \in D : TRUE
         IN DimCode(d) * (i[d] - 1) + CellCode(i, D \ {d})

\* An input array over dims, every dimension of size DimLen, without
\* coordinates; cell values are distinct per cell, offset by base.
InputArray(dims, base, attrs) ==
    LET D == Range(dims)
        shape == [d \in D |-> DimLen]
    IN [kind |-> "array", dims |-> dims, shape |-> shape,
        data |-> [i \in Idx(D, shape) |-> base + CellCode(i, D)],
        coords |-> [d \in {} |-> <<>>], attrs |-> attrs]

\* The threshold list materialised as xr.DataArray(list, dims='threshold')
\* with the coordinate np.arange(1, 1 + size).
ThresholdArray(vals) ==
    [kind |-> "array", dims |-> <<"threshold">>,
     shape |-> [d \in {"threshold"} |-> Len(vals)],
     data |-> [i \in Idx({"threshold"}, [d \in {"threshold"} |-> Len(vals)]) |-> vals[i["threshold"]]],
     coords |-> [d \in {"threshold"} |-> [k \in 1..Len(vals) |-> k]],
     attrs |-> {}]

\* xr.DataArray(v) of a bare number: zero-dimensional, no metadata.
ZeroDimArray(v) ==
    [kind |-> "array", dims |-> <<>>, shape |-> [d \in {} |-> 0],
     data |-> [i \in Idx({}, [d \in {} |-> 0]) |-> v],
     coords |-> [d \in {} |-> <<>>], attrs |-> {}]

\* ------------------------------------------------------------ xr.broadcast

\* One operand of xr.broadcast expanded to the common dimensions dims.
BroadcastTo(a, dims, shape) ==
    [kind |-> "array", dims |-> dims, shape |-> shape,
     data |-> [i \in Idx(Range(dims), shape) |-> a.data[Restrict(i, DimSet(a))]],
     coords |-> a.coords, attrs |-> a.attrs]

\* xr.broadcast(a, b): both operands over the ordered union of their
\* dimensions, metadata kept.
Broadcast(a, b) ==
    LET dims == OrdUnion(a.dims, b.dims)
        shape == [d \in Range(dims) |-> IF d \in DimSet(a) THEN a.shape[d] ELSE b.shape[d]]
    IN <<BroadcastTo(a, dims, shape), BroadcastTo(b, dims, shape)>>

\* ----------------------------------------------------------- xr.apply_ufunc

ArrayArgs(a) == {k \in DOMAIN a : a[k].kind = "array"}

ArgDims(a) == UNION {DimSet(a[k]) : k \in ArrayArgs(a)}

SizesOf(a, d) == {a[k].shape[d] : k \in {j \in ArrayArgs(a) : d \in DimSet(a[j])}}

LabelsOf(a, d) == {a[k].coords[d] : k \in {j \in ArrayArgs(a) : d \in DOMAIN a[j].coords}}

RECURSIVE JoinDims(_, _)
JoinDims(a, k) ==
    IF k = 0 THEN <<>>
    ELSE OrdUnion(JoinDims(a, k - 1), IF a[k].kind = "array" THEN a[k].dims ELSE <<>>)

AllCoreDims(icd, ocd) == UNION {Range(icd[k]) : k \in DOMAIN icd} \cup Range(ocd)

\* What the kernel receives from argument v at the output cell j: the cell
\* itself when v has no core dimension or its core dimension c is the
\* kernel's output axis (pointwise), the whole vector along c otherwise; a
\* bare number is passed as it is, None as nothing.
Slice(v, core, isPointwise, j) ==
    IF v.kind = "scalar" THEN <<v.val>>
    ELSE IF v.kind # "array" THEN <<>>
    ELSE IF core = <<>> \/ isPointwise THEN <<v.data[Restrict(j, DimSet(v))]>>
    ELSE LET c == core[1]
         IN [m \in 1..v.shape[c] |-> v.data[(c :> m) @@ Restrict(j, DimSet(v) \ {c})]]

\* xr.apply_ufunc(func, *a, input_core_dims=icd, output_core_dims=[ocd],
\* kwargs=kw, keep_attrs=keep_attrs).  It raises ValueError when the operands
\* disagree on a dimension's size or labels, when an operand lacks one of
\* its core dimensions, or when an operand carries a dimension that is a
\* core dimension of another operand or of the output.
ApplyUfunc(func, a, icd, ocd, pointwise, kw, keep_attrs) ==
    LET core == AllCoreDims(icd, ocd)
        bdims == Without(JoinDims(a, Len(a)), core)
        clash == \E d \in ArgDims(a) : Cardinality(SizesOf(a, d)) > 1 \/ Cardinality(LabelsOf(a, d)) > 1
        missing == \E k \in ArrayArgs(a) : ~(Range(icd[k]) \subseteq DimSet(a[k]))
        unexpected == \E k \in ArrayArgs(a) : ~(DimSet(a[k]) \subseteq Range(bdims) \cup Range(icd[k]))
        odims == bdims \o ocd
        OD == Range(odims)
        shape == [d \in OD |-> CHOOSE n \in SizesOf(a, d) : TRUE]
        labelled == {d \in OD : LabelsOf(a, d) # {}}
    IN IF clash \/ missing \/ unexpected
       THEN [ok |-> FALSE, err |-> ValueError("apply_ufunc"), val |-> NoneVal]
       ELSE [ok |-> TRUE, err |-> NoError,
             val |-> [kind |-> "array", dims |-> odims, shape |-> shape,
                      data |-> [j \in Idx(OD, shape) |->
                                 [op |-> func,
                                  in |-> [k \in DOMAIN a |-> Slice(a[k], icd[k], k \in pointwise, j)],
                                  kw |-> kw]],
                      coords |-> [d \in labelled |-> CHOOSE l \in LabelsOf(a, d) : TRUE],
                      attrs |-> IF keep_attrs THEN a[1].attrs ELSE {}]]

\* ------------------------------------------------------------- reduction

\* res.mean(dim, keep_attrs=keep_attrs): the unweighted mean over dim, over
\* every dimension when dim is None; a name in dim that res lacks raises.
Mean(x, dim, keep_attrs) ==
    LET R == IF dim.kind = "none" THEN DimSet(x) ELSE dim.names
        odims == Without(x.dims, R)
        OD == Range(odims)
        shape == Restrict(x.shape, OD)
        cells == Idx(DimSet(x), x.shape)
        pair == [i \in cells |-> <<x.data[i], 1>>]
    IN IF ~(R \subseteq DimSet(x))
       THEN [ok |-> FALSE, err |-> ValueError("mean"), val |-> NoneVal]
       ELSE [ok |-> TRUE, err |-> NoError,
             val |-> [kind |-> "array", dims |-> odims, shape |-> shape,
                      data |-> [j \in Idx(OD, shape) |->
                                 [weighted |-> FALSE,
                                  terms |-> BagOf({i \in cells : Restrict(i, OD) = j}, pair)]],
                      coords |-> Restrict(x.coords, DOMAIN x.coords \cap OD),
                      attrs |-> IF keep_attrs THEN x.attrs ELSE {}]]

\* res.weighted(w).mean(dim, keep_attrs=keep_attrs): sum(x * w) / sum(w)
\* over dim, x and w broadcast against each other; over every dimension of
\* both when dim is None.  A name in dim that neither carries raises, as do
\* operands that disagree on a shared dimension's size.
WeightedMean(x, w, dim, keep_attrs) ==
    LET udims == OrdUnion(x.dims, w.dims)
        U == Range(udims)
        clash == \E d \in DimSet(x) \cap DimSet(w) : x.shape[d] # w.shape[d]
        ushape == [d \in U |-> IF d \in DimSet(x) THEN x.shape[d] ELSE w.shape[d]]
        R == IF dim.kind = "none" THEN U ELSE dim.names
        odims == Without(udims, R)
        OD == Range(odims)
        cells == Idx(U, ushape)
        pair == [i \in cells |-> <<x.data[Restrict(i, DimSet(x))], w.data[Restrict(i, DimSet(w))]>>]
    IN IF clash \/ ~(R \subseteq U)
       THEN [ok |-> FALSE, err |-> ValueError("mean"), val |-> NoneVal]
       ELSE [ok |-> TRUE, err |-> NoError,
             val |-> [kind |-> "array", dims |-> odims, shape |-> Restrict(ushape, OD),
                      data |-> [j \in Idx(OD, Restrict(ushape, OD)) |->
                                 [weighted |-> TRUE,
                                  terms |-> BagOf({i \in cells : Restrict(i, OD) = j}, pair)]],
                      coords |-> Restrict(x.coords, DOMAIN x.coords \cap OD),
                      attrs |-> IF keep_attrs THEN x.attrs ELSE {}]]

\* Faulty variant of Reduction: dim is not passed on to the mean.
ReductionWithoutDim(res, weights, dim, keep_attrs) ==
    IF ~res.ok THEN res
    ELSE IF weights.kind # "none" THEN WeightedMean(res.val, weights, NoneVal, keep_attrs)
    ELSE Mean(res.val, NoneVal, keep_attrs)

\* Faulty variant of Reduction: weights with a dimension outside dim are refused.
ReductionCheckingWeights(res, weights, dim, keep_attrs) ==
    IF ~res.ok THEN res
    ELSE IF weights.kind # "none" /\ dim.kind # "none" /\ ~(DimSet(weights) \subseteq dim.names)
    THEN [ok |-> FALSE, err |-> ValueError("mean"), val |-> NoneVal]
    ELSE IF weights.kind # "none" THEN WeightedMean(res.val, weights, dim, keep_attrs)
    ELSE Mean(res.val, dim, keep_attrs)

\* Faulty variant of Reduction: keep_attrs is not passed on to the mean.
ReductionWithoutKeepAttrs(res, weights, dim, keep_attrs) ==
    IF ~res.ok THEN res
    ELSE IF weights.kind # "none" THEN WeightedMean(res.val, weights, dim, FALSE)
    ELSE Mean(res.val, dim, FALSE)

\* The closing lines of every operation:
\*   if weights is not None: return res.weighted(weights).mean(dim, ...)
\*   else:                   return res.mean(dim, ...)
\* res is the outcome of apply_ufunc; its error propagates.
Reduction(res, weights, dim, keep_attrs) ==
    IF ~res.ok THEN res
    ELSE IF weights.kind # "none" THEN WeightedMean(res.val, weights, dim, keep_attrs)
    ELSE Mean(res.val, dim, keep_attrs)

\* ------------------------------------------------------------ operations

\* What a call leaves behind: the caller's argument objects after the call
\* (post), what reached xr.apply_ufunc (disp: the operands, the core
\* dimension lists, whether the kernel ran, and for crps_gaussian which of
\* the two broadcasts were made), and the value returned or the exception.
NoDispatch == [reached |-> FALSE, args |-> <<>>, icd |-> <<>>, ocd |-> <<>>, invoked |-> FALSE, norm |-> <<>>]

Dispatch(a, icd, ocd, res, norm) == [reached |-> TRUE, args |-> a, icd |-> icd, ocd |-> ocd, invoked |-> res.ok, norm |-> norm]

Outcome(postArgs, d, final) == [post |-> postArgs, disp |-> d, result |-> final.val, raised |-> final.err]

NoKwargs == <<>>

crps_gaussian(observations, mu, sig, dim, weights, keep_attrs) ==
    LET mu1 == IF mu.kind = "scalar" THEN ZeroDimArray(mu.val) ELSE mu
        sig1 == IF sig.kind = "scalar" THEN ZeroDimArray(sig.val) ELSE sig
        bmu == mu1.dims # observations.dims
        b1 == IF bmu THEN Broadcast(observations, mu1) ELSE <<observations, mu1>>
        bsig == sig1.dims # b1[1].dims
        b2 == IF bsig THEN Broadcast(b1[1], sig1) ELSE <<b1[1], sig1>>
        a == <<b2[1], b1[2], b2[2]>>
        icd == <<<<>>, <<>>, <<>>>>
        res == ApplyUfunc("crps_gaussian", a, icd, <<>>, {}, NoKwargs, keep_attrs)
    IN Outcome([observations |-> observations, mu |-> mu, sig |-> sig, weights |-> weights],
               Dispatch(a, icd, <<>>, res, <<bmu, bsig>>),
               Reduction(res, weights, dim, keep_attrs))

crps_quadrature(x, cdf_or_dist, xmin, xmax, tol, dim, weights, keep_attrs) ==
    LET a == <<x, cdf_or_dist, xmin, xmax, tol>>
        icd == <<<<>>, <<>>, <<>>, <<>>, <<>>>>
        res == ApplyUfunc("crps_quadrature", a, icd, <<>>, {}, NoKwargs, keep_attrs)
    IN Outcome([x |-> x, cdf_or_dist |-> cdf_or_dist, xmin |-> xmin, xmax |-> xmax, tol |-> tol, weights |-> weights],
               Dispatch(a, icd, <<>>, res, <<>>),
               Reduction(res, weights, dim, keep_attrs))

\* Faulty variant of crps_ensemble: member_dim is not declared a core dimension.
crps_ensemble_without_core(observations, forecasts, member_weights, issorted, member_dim, dim, weights, keep_attrs) ==
    LET a == <<observations, forecasts>>
        icd == <<<<>>, <<>>>>
        kw == [axis |-> -1, issorted |-> issorted, weights |-> member_weights]
        res == ApplyUfunc("crps_ensemble", a, icd, <<>>, {}, kw, keep_attrs)
    IN Outcome([observations |-> observations, forecasts |-> forecasts, member_weights |-> member_weights, weights |-> weights],
               Dispatch(a, icd, <<>>, res, <<>>),
               Reduction(res, weights, dim, keep_attrs))

crps_ensemble(observations, forecasts, member_weights, issorted, member_dim, dim, weights, keep_attrs) ==
    LET a == <<observations, forecasts>>
        icd == <<<<>>, <<member_dim>>>>
        kw == [axis |-> -1, issorted |-> issorted, weights |-> member_weights]
        res == ApplyUfunc("crps_ensemble", a, icd, <<>>, {}, kw, keep_attrs)
    IN Outcome([observations |-> observations, forecasts |-> forecasts, member_weights |-> member_weights, weights |-> weights],
               Dispatch(a, icd, <<>>, res, <<>>),
               Reduction(res, weights, dim, keep_attrs))

brier_score(observations, forecasts, dim, weights, keep_attrs) ==
    LET a == <<observations, forecasts>>
        icd == <<<<>>, <<>>>>
        res == ApplyUfunc("brier_score", a, icd, <<>>, {}, NoKwargs, keep_attrs)
    IN Outcome([observations |-> observations, forecasts |-> forecasts, weights |-> weights],
               Dispatch(a, icd, <<>>, res, <<>>),
               Reduction(res, weights, dim, keep_attrs))

\* list.sort(): ascending, in place.
RECURSIVE Insert(_, _)
Insert(v, s) ==
    IF s = <<>> THEN <<v>>
    ELSE IF v <= Head(s) THEN <<v>> \o s
    ELSE <<Head(s)>> \o Insert(v, Tail(s))

\* Faulty variant of Sort: the list is left in the order given.
Unsorted(s) == s

RECURSIVE Sort(_)
Sort(s) == IF s = <<>> THEN <<>> ELSE Insert(Head(s), Sort(Tail(s)))

\* Faulty variant of ThresholdRouting: an array is not asked for its 'threshold'
\* dimension.
ThresholdRoutingAnyArray(threshold, member_dim) ==
    LET isList == threshold.kind = "list"
        thr == IF isList THEN ThresholdArray(Sort(threshold.vals)) ELSE threshold
    IN IF thr.kind = "array"
       THEN [ok |-> TRUE, threshold |-> thr,
             icd |-> <<<<>>, <<member_dim>>, <<"threshold">>>>, ocd |-> <<"threshold">>]
       ELSE IF thr.kind = "scalar"
       THEN [ok |-> TRUE, threshold |-> thr, icd |-> <<<<>>, <<member_dim>>, <<>>>>, ocd |-> <<>>]
       ELSE [ok |-> FALSE, threshold |-> thr, icd |-> <<>>, ocd |-> <<>>]

\* Faulty variant of ThresholdRouting: the scalar branch declares no member core
\* dimension.
ThresholdRoutingScalarNoMember(threshold, member_dim) ==
    LET isList == threshold.kind = "list"
        thr == IF isList THEN ThresholdArray(Sort(threshold.vals)) ELSE threshold
    IN IF thr.kind = "array"
       THEN IF "threshold" \notin DimSet(thr)
            THEN [ok |-> FALSE, threshold |-> thr, icd |-> <<>>, ocd |-> <<>>]
            ELSE [ok |-> TRUE, threshold |-> thr,
                  icd |-> <<<<>>, <<member_dim>>, <<"threshold">>>>, ocd |-> <<"threshold">>]
       ELSE IF thr.kind = "scalar"
       THEN [ok |-> TRUE, threshold |-> thr, icd |-> <<<<>>, <<>>, <<>>>>, ocd |-> <<>>]
       ELSE [ok |-> FALSE, threshold |-> thr, icd |-> <<>>, ocd |-> <<>>]

\* Lines 306-326: the threshold as the rest of the call sees it, the core
\* dimension lists chosen for it, or the ValueError raised.
ThresholdRouting(threshold, member_dim) ==
    LET isList == threshold.kind = "list"
        thr == IF isList THEN ThresholdArray(Sort(threshold.vals)) ELSE threshold
    IN IF thr.kind = "array"
       THEN IF "threshold" \notin DimSet(thr)
            THEN [ok |-> FALSE, threshold |-> thr, icd |-> <<>>, ocd |-> <<>>]
            ELSE [ok |-> TRUE, threshold |-> thr,
                  icd |-> <<<<>>, <<member_dim>>, <<"threshold">>>>, ocd |-> <<"threshold">>]
       ELSE IF thr.kind = "scalar"
       THEN [ok |-> TRUE, threshold |-> thr, icd |-> <<<<>>, <<member_dim>>, <<>>>>, ocd |-> <<>>]
       ELSE [ok |-> FALSE, threshold |-> thr, icd |-> <<>>, ocd |-> <<>>]

\* The caller's threshold object once the call is over: threshold.sort()
\* (line 307) works on the caller's own list.
ThresholdAfter(threshold) ==
    IF threshold.kind = "list" THEN PyList(Sort(threshold.vals)) ELSE threshold

threshold_brier_score(observations, forecasts, threshold, issorted, member_dim, dim, weights, keep_attrs) ==
    LET route == ThresholdRouting(threshold, member_dim)
        a == <<observations, forecasts, route.threshold>>
        kw == [axis |-> -1, issorted |-> issorted]
        res == ApplyUfunc("threshold_brier_score", a, route.icd, route.ocd, {3}, kw, keep_attrs)
        postArgs == [observations |-> observations, forecasts |-> forecasts,
                     threshold |-> ThresholdAfter(threshold), weights |-> weights]
    IN IF ~route.ok
       THEN Outcome(postArgs, NoDispatch, [val |-> NoneVal, err |-> ValueError("threshold")])
       ELSE Outcome(postArgs, Dispatch(a, route.icd, route.ocd, res, <<>>),
                    Reduction(res, weights, dim, keep_attrs))

\* ------------------------------------------------------------ the inputs

Names(S) == [kind |-> "names", names |-> S]

ObsAttrs == {"units"}

FcstAttrs == {"source"}

Observations(dims) == InputArray(dims, 0, ObsAttrs)

Forecasts(dims) == InputArray(dims, 100, FcstAttrs)

Weights(dims) == InputArray(dims, 1, {"weights"})

\* Every ordering of every subset of {x, y}.
GridDims == {<<>>, <<"x">>, <<"y">>, <<"x", "y">>, <<"y", "x">>}

ObsDims == {<<>>, <<"x">>, <<"threshold">>, <<"x", "member">>}

FcstDims == {<<>>, <<"x">>, <<"member">>, <<"x", "member">>, <<"member", "threshold">>}

DimChoices == {NoneVal} \cup {Names(S) : S \in SUBSET {"x", "threshold"}} \cup {Names({"member"})}

GridDimChoices == {NoneVal} \cup {Names(S) : S \in SUBSET {"x", "y"}}

WeightChoices == {NoneVal, Weights(<<"x">>), Weights(<<"threshold">>)}

GridWeightChoices == {NoneVal, Weights(<<"x">>), Weights(<<"y">>)}

MemberDims == {"member", "x", "threshold"}

ThresholdVals == {1, 2}

ThresholdLists == UNION {[1..n -> ThresholdVals] : n \in 0..MaxThresholds}

\* A threshold array the caller built: values 2, 1 along 'threshold' with
\* the labels 10, 20.
LabelledThreshold ==
    [kind |-> "array", dims |-> <<"threshold">>, shape |-> [d \in {"threshold"} |-> 2],
     data |-> [i \in Idx({"threshold"}, [d \in {"threshold"} |-> 2]) |-> 3 - i["threshold"]],
     coords |-> [d \in {"threshold"} |-> <<10, 20>>], attrs |-> {}]

ThresholdChoices ==
    {Scalar(t) : t \in ThresholdVals} \cup {PyList(s) : s \in ThresholdLists}
    \cup {PyTuple(<<1, 2>>), NoneVal, LabelledThreshold, InputArray(<<"threshold">>, 1, {}), InputArray(<<"x">>, 1, {})}

GaussianParams == {Scalar(1)} \cup {InputArray(d, 100, FcstAttrs) : d \in GridDims}

\* --------------------------------------------------------- the state machine

Init ==
    /\ op = "none"
    /\ args = NoneVal
    /\ post = NoneVal
    /\ disp = NoDispatch
    /\ result = NoneVal
    /\ raised = NoError

\* One call: the arguments as passed, and everything the call leaves behind.
Returns(name, passed, out) ==
    /\ op' = name
    /\ args' = passed
    /\ post' = out.post
    /\ disp' = out.disp
    /\ result' = out.result
    /\ raised' = out.raised

Call_crps_gaussian ==
    /\ op = "none"
    /\ \E od \in GridDims, mu \in GaussianParams, sig \in GaussianParams, dim \in GridDimChoices, weights \in GridWeightChoices, keep_attrs \in BOOLEAN :
        Returns("crps_gaussian",
                [observations |-> Observations(od), mu |-> mu, sig |-> sig,
                 dim |-> dim, weights |-> weights, keep_attrs |-> keep_attrs],
                crps_gaussian(Observations(od), mu, sig, dim, weights, keep_attrs))

Call_crps_quadrature ==
    /\ op = "none"
    /\ \E od \in ObsDims, dim \in DimChoices, weights \in WeightChoices, keep_attrs \in BOOLEAN :
        Returns("crps_quadrature",
                [x |-> Observations(od), cdf_or_dist |-> [kind |-> "callable"], xmin |-> NoneVal,
                 xmax |-> NoneVal, tol |-> Scalar("1e-6"),
                 dim |-> dim, weights |-> weights, keep_attrs |-> keep_attrs],
                crps_quadrature(Observations(od), [kind |-> "callable"], NoneVal, NoneVal, Scalar("1e-6"), dim, weights, keep_attrs))

Call_crps_ensemble ==
    /\ op = "none"
    /\ \E od \in ObsDims, fd \in FcstDims, mw \in {NoneVal, Weights(<<"member">>)}, member_dim \in MemberDims, dim \in DimChoices, weights \in WeightChoices, keep_attrs \in BOOLEAN :
        Returns("crps_ensemble",
                [observations |-> Observations(od), forecasts |-> Forecasts(fd), member_weights |-> mw,
                 issorted |-> FALSE, member_dim |-> member_dim,
                 dim |-> dim, weights |-> weights, keep_attrs |-> keep_attrs],
                crps_ensemble(Observations(od), Forecasts(fd), mw, FALSE, member_dim, dim, weights, keep_attrs))

Call_brier_score ==
    /\ op = "none"
    /\ \E od \in ObsDims, fd \in FcstDims, dim \in DimChoices, weights \in WeightChoices, keep_attrs \in BOOLEAN :
        Returns("brier_score",
                [observations |-> Observations(od), forecasts |-> Forecasts(fd),
                 dim |-> dim, weights |-> weights, keep_attrs |-> keep_attrs],
                brier_score(Observations(od), Forecasts(fd), dim, weights, keep_attrs))

Call_threshold_brier_score ==
    /\ op = "none"
    /\ \E od \in ObsDims, fd \in FcstDims, threshold \in ThresholdChoices, member_dim \in MemberDims, dim \in DimChoices, weights \in WeightChoices, keep_attrs \in BOOLEAN :
        Returns("threshold_brier_score",
                [observations |-> Observations(od), forecasts |-> Forecasts(fd), threshold |-> threshold,
                 issorted |-> FALSE, member_dim |-> member_dim,
                 dim |-> dim, weights |-> weights, keep_attrs |-> keep_attrs],
                threshold_brier_score(Observations(od), Forecasts(fd), threshold, FALSE, member_dim, dim, weights, keep_attrs))

Next ==
    \/ Call_crps_gaussian
    \/ Call_crps_quadrature
    \/ Call_crps_ensemble
    \/ Call_brier_score
    \/ Call_threshold_brier_score

Spec == Init /\ [][Next]_vars

\* ------------------------------------------------------ reading a state

Called == op # "none"

Returned == Called /\ raised = NoError

EnsembleBased == op \in {"crps_ensemble", "threshold_brier_score"}

HasWeights == Called /\ args.weights.kind = "array"

DimGiven == Called /\ args.dim.kind = "names"

\* The threshold argument is vector-valued: a list, or an array along
\* 'threshold'.
VectorThreshold ==
    /\ op = "threshold_brier_score"
    /\ \/ args.threshold.kind = "list"
       \/ args.threshold.kind = "array" /\ "threshold" \in DimSet(args.threshold)

ScalarThreshold == op = "threshold_brier_score" /\ args.threshold.kind = "scalar"

DimsOfValue(v) ==
    IF v.kind = "array" THEN DimSet(v)
    ELSE IF v.kind = "list" THEN {"threshold"}
    ELSE {}

\* The first input of the call, whose metadata keep_attrs copies.
FirstInput == IF op = "crps_quadrature" THEN args.x ELSE args.observations

\* Union of the dimension names of the scored inputs of the call.
InputDimNames ==
    CASE op = "crps_gaussian" -> DimsOfValue(args.observations) \cup DimsOfValue(args.mu) \cup DimsOfValue(args.sig)
      [] op = "crps_quadrature" -> DimsOfValue(args.x)
      [] op = "threshold_brier_score" -> DimsOfValue(args.observations) \cup DimsOfValue(args.forecasts) \cup DimsOfValue(args.threshold)
      [] OTHER -> DimsOfValue(args.observations) \cup DimsOfValue(args.forecasts)

ConsumedDims ==
    (IF EnsembleBased THEN {args.member_dim} ELSE {})
    \cup (IF VectorThreshold THEN {"threshold"} ELSE {})

NewDims == IF VectorThreshold THEN {"threshold"} ELSE {}

KernelOutputDims == (InputDimNames \ ConsumedDims) \cup NewDims

WeightDims == IF HasWeights THEN DimSet(args.weights) ELSE {}

\* --------------------------------------------------------------- claims

C2_ThresholdDimension ==
    (Returned /\ op = "threshold_brier_score" /\ ~DimGiven /\ ~HasWeights) =>
        /\ VectorThreshold =>
              /\ "threshold" \in DimSet(result)
              /\ result.shape["threshold"] = disp.args[3].shape["threshold"]
              /\ result.coords["threshold"] = disp.args[3].coords["threshold"]
        /\ ScalarThreshold => "threshold" \notin DimSet(result)

\* C3: after any call, returned or raised, every argument object has the
\* value and element order it had before the call.
C3_InputsUnchanged ==
    Called => \A f \in DOMAIN post : post[f] = args[f]

\* Weights carry a dimension that dim does not name.
WeightsOutsideDim == HasWeights /\ DimGiven /\ ~(WeightDims \subseteq args.dim.names)

ThresholdLen ==
    IF args.threshold.kind = "list" THEN Len(args.threshold.vals)
    ELSE args.threshold.shape["threshold"]

\* Weights and the kernel output agree on the size of the dimensions they
\* share (every input dimension but a threshold axis has size DimLen).
WeightSizesAgree ==
    \A d \in WeightDims \cap KernelOutputDims :
        args.weights.shape[d] = IF d = "threshold" /\ VectorThreshold THEN ThresholdLen ELSE DimLen

ThresholdHasDim == args.threshold.kind = "array" /\ "threshold" \in DimSet(args.threshold)

RaisedInvalidThreshold == raised = ValueError("threshold") /\ ~disp.reached /\ ~disp.invoked /\ result = NoneVal

\* C5 as stated: threshold_brier_score accepts a scalar, a sequence of
\* scalars or a labeled array with a 'threshold' dimension, and raises the
\* invalid-threshold error, before the kernel runs, for anything else.
C5_SequencesAccepted ==
    op = "threshold_brier_score" =>
        IF args.threshold.kind \in {"scalar", "list", "tuple"} \/ ThresholdHasDim
        THEN disp.reached /\ raised # ValueError("threshold")
        ELSE RaisedInvalidThreshold

\* C5 amended: threshold_brier_score accepts a scalar number, a list of
\* scalars or a labeled array with a 'threshold' dimension, and raises the
\* invalid-threshold error, before the kernel runs, for anything else: a
\* sequence that is not a list (a tuple), None, a labeled array without a
\* 'threshold' dimension.
C5_ThresholdValidation ==
    op = "threshold_brier_score" =>
        IF args.threshold.kind \in {"scalar", "list"} \/ ThresholdHasDim
        THEN disp.reached /\ raised # ValueError("threshold")
        ELSE RaisedInvalidThreshold

\* C5 witness: a tuple of thresholds was refused before the kernel ran.
C5_Witness ==
    /\ op = "threshold_brier_score"
    /\ args.threshold.kind = "tuple"
    /\ RaisedInvalidThreshold

ThresholdValid == args.threshold.kind \in {"scalar", "list"} \/ ThresholdHasDim

MemberDimMissing ==
    /\ EnsembleBased
    /\ args.member_dim \notin DimSet(args.forecasts)
    /\ op = "threshold_brier_score" => ThresholdValid

CompleteResult == result.kind = "array" /\ DOMAIN result.data = Idx(DimSet(result), result.shape)

\* C6: an ensemble-based call whose forecasts lack the dimension member_dim
\* ends in the dispatcher's ValueError, the kernel never runs and nothing is
\* returned; every call either returns a complete result or raises and
\* returns nothing.
C6_MissingMemberDim ==
    /\ MemberDimMissing => raised = ValueError("apply_ufunc") /\ ~disp.invoked /\ result = NoneVal
    /\ Called => \/ raised = NoError /\ CompleteResult
                 \/ raised # NoError /\ result = NoneVal

\* C6 witness: crps_ensemble and forecasts without the member dimension.
C6_Witness ==
    /\ op = "crps_ensemble"
    /\ MemberDimMissing
    /\ DimSet(args.forecasts) # {}
    /\ raised = ValueError("apply_ufunc")

\* The same call with the one-element list [t] in place of the scalar t.
VectorCall ==
    threshold_brier_score(args.observations, args.forecasts, PyList(<<args.threshold.val>>),
                          args.issorted, args.member_dim, args.dim, args.weights, args.keep_attrs)

\* a without its 'threshold' dimension when that has size 1, a otherwise.
DropThreshold(a) ==
    IF "threshold" \in DimSet(a) /\ a.shape["threshold"] = 1
    THEN LET dims == Without(a.dims, {"threshold"})
             shape == Restrict(a.shape, Range(dims))
         IN [kind |-> "array", dims |-> dims, shape |-> shape,
             data |-> [j \in Idx(Range(dims), shape) |-> a.data[("threshold" :> 1) @@ j]],
             coords |-> Restrict(a.coords, DOMAIN a.coords \ {"threshold"}),
             attrs |-> a.attrs]
    ELSE a

SameValuesAndDims(r, q) == r.dims = q.dims /\ r.shape = q.shape /\ r.data = q.data

ScalarEqualsVector ==
    /\ raised = NoError <=> VectorCall.raised = NoError
    /\ raised = NoError => SameValuesAndDims(result, DropThreshold(VectorCall.result))

\* 'threshold' names nothing but the threshold argument's own axis.
ThresholdNameFree ==
    /\ "threshold" \notin DimSet(args.observations) \cup DimSet(args.forecasts) \cup WeightDims
    /\ DimGiven => "threshold" \notin args.dim.names

\* C7 as stated: for all observations, forecasts, dim and weights, the
\* scalar threshold t gives the values and dimensions the one-element
\* vector threshold [t] gives once its singleton 'threshold' dimension is
\* dropped.
C7_ScalarVectorAlways ==
    ScalarThreshold => ScalarEqualsVector

\* C7 amended: the scalar threshold t gives the values and dimensions the
\* one-element vector threshold [t] gives once its singleton 'threshold'
\* dimension is dropped, for every call in which 'threshold' is neither a
\* name in dim nor a dimension of observations, forecasts or weights.
C7_ScalarVector ==
    (ScalarThreshold /\ ThresholdNameFree) => ScalarEqualsVector

\* C7 witness: a scalar-threshold call returned a result with a dimension
\* left, and the vector call's result had the 'threshold' dimension to drop.
C7_Witness ==
    /\ ScalarThreshold /\ ThresholdNameFree /\ Returned /\ HasWeights
    /\ DimSet(result) # {}
    /\ "threshold" \in DimSet(VectorCall.result)

\* C8: a returned result carries the first input's metadata when keep_attrs
\* is true and none when it is false, in every operation, with or without
\* weights, for every dim.
C8_Attrs ==
    Returned => result.attrs = IF args.keep_attrs THEN FirstInput.attrs ELSE {}

\* C8 witness: a weighted call with keep_attrs returned the first input's
\* non-empty metadata.
C8_Witness ==
    /\ Returned /\ HasWeights /\ args.keep_attrs
    /\ FirstInput.attrs # {}
    /\ result.attrs = FirstInput.attrs

\* C9: the three arrays crps_gaussian hands to the kernel have the same
\* dimension names, the union of those of observations, mu and sig; and
\* when mu and sig have the dimension names of observations no broadcast is
\* made and the inputs go through as given.
C9_CommonFrame ==
    op = "crps_gaussian" =>
        /\ \A k \in 1..3 : DimSet(disp.args[k]) = InputDimNames
        /\ (DimsOfValue(args.mu) = DimsOfValue(args.observations) /\ DimsOfValue(args.sig) = DimsOfValue(args.observations)) =>
              /\ disp.norm = <<FALSE, FALSE>>
              /\ disp.args[1] = args.observations

IsAscending(v) == \A i, j \in DOMAIN v : i < j => v[i] <= v[j]

Count(v, e) == Cardinality({k \in DOMAIN v : v[k] = e})

IsPermutation(v, w) == Len(v) = Len(w) /\ \A e \in Range(v) \cup Range(w) : Count(v, e) = Count(w, e)

\* v is the k-th smallest element of the sequence w.
IsKthSmallest(v, k, w) ==
    /\ Cardinality({i \in DOMAIN w : w[i] < v}) < k
    /\ Cardinality({i \in DOMAIN w : w[i] <= v}) >= k

\* The values of a one-dimensional array along d, in order.
ValuesAlong(a, d) == [k \in 1..a.shape[d] |-> a.data[(d :> k)]]

\* C10: a list of n thresholds always takes the vector routing, never the
\* invalid-threshold branch; the threshold handed to the kernel is one-
\* dimensional along 'threshold', holds the list's values in ascending order
\* (duplicates kept) and is labelled 1..n; and the entry of the result
\* labelled k is the score for the k-th smallest threshold.
C10_ListThreshold ==
    (op = "threshold_brier_score" /\ args.threshold.kind = "list") =>
        LET thr == disp.args[3]
            n == Len(args.threshold.vals)
        IN /\ disp.reached /\ raised # ValueError("threshold")
           /\ disp.icd = <<<<>>, <<args.member_dim>>, <<"threshold">>>>
           /\ disp.ocd = <<"threshold">>
           /\ thr.kind = "array" /\ thr.dims = <<"threshold">> /\ thr.shape["threshold"] = n
           /\ IsAscending(ValuesAlong(thr, "threshold"))
           /\ IsPermutation(ValuesAlong(thr, "threshold"), args.threshold.vals)
           /\ thr.coords["threshold"] = [k \in 1..n |-> k]
           /\ (Returned /\ "threshold" \in DimSet(result)) =>
                 /\ result.coords["threshold"] = [k \in 1..n |-> k]
                 /\ \A j \in DOMAIN result.data : \A e \in DOMAIN result.data[j].terms :
                        IsKthSmallest(e[1].in[3][1], j["threshold"], args.threshold.vals)

\* C10 witness: a list given in descending order was scored and the result
\* kept the 'threshold' dimension.
C10_Witness ==
    /\ op = "threshold_brier_score" /\ args.threshold.kind = "list"
    /\ Len(args.threshold.vals) = 2 /\ args.threshold.vals[1] > args.threshold.vals[2]
    /\ Returned /\ "threshold" \in DimSet(result)
    /\ DimSet(result) # {"threshold"}

====
